---- MODULE Spec2Model ----
(***************************************************************************)
(* v2ex-terminal: the page extractor of crawler.rs (parse_v2ex_page and    *)
(* parse_v2ex_cell_item_topic_info) and the refresh protocol of main.rs    *)
(* (the spawned fetch-and-extract task, the mpsc handoff channel and the   *)
(* foreground loop of run_app).                                            *)
(*                                                                         *)
(* Text that the code takes apart (the href of a link) is a sequence of    *)
(* one-character strings.  Option<T> is a sequence of length 0 or 1.       *)
(* Result<T> is a record [kind, val] with kind "ok", "err" or "panic"      *)
(* (an unwrap() on None, or an index out of range).                        *)
(***************************************************************************)
EXTENDS Integers, Sequences, FiniteSets, TLC

VARIABLES
    bgpc,       \* position of the spawned task (main.rs 73-85)
    page_html,  \* Option: the document get_v2ex_page returned
    topic,      \* the Vec<V2exTopic> parse_v2ex_page returned
    chan,       \* messages pending in the mpsc channel
    receiver,   \* TRUE while run_app owns the Receiver
    app_state,  \* AppState
    fgpc,       \* position of the foreground loop (main.rs 87-123)
    frame,      \* Option: what the last terminal.draw rendered
    browser,    \* Option: the URL last handed to open::that
    received    \* history: the values try_recv has returned

vars == <<bgpc, page_html, topic, chan, receiver, app_state, fgpc, frame,
          browser, received>>

None == <<>>
Some(v) == <<v>>

Ok(v) == [kind |-> "ok", val |-> v]
Err == [kind |-> "err", val |-> <<>>]
Panic == [kind |-> "panic", val |-> <<>>]

\* ------------------------------------------------------------------ bounds

\* most elements under the document root, for the pages the extractor is
\* applied to on its own
MaxCells == 2

\* most elements under the document root, for the pages the background task
\* fetches
MaxFetched == 3

\* ----------------------------------------------------------------- markup

\* An element: tag, class set, the two attributes the code reads, inner
\* html and child elements in document order.
El(tag, class, href, title, text, kids) ==
    [tag |-> tag, class |-> class, href |-> href, title |-> title,
     text |-> text, kids |-> kids]

RECURSIVE Flatten(_)
Flatten(els) ==
    IF els = <<>> THEN <<>>
    ELSE <<Head(els)>> \o Flatten(Head(els).kids) \o Flatten(Tail(els))

\* the descendants of an element in document order (the element itself is
\* not a candidate of ElementRef::select)
Descendants(el) == Flatten(el.kids)

\* scraper::Selector: a tag name or a conjunction of classes
CellItem == [tag |-> "", class |-> {"cell", "item"}]
TopicLink == [tag |-> "", class |-> {"topic-link"}]
TopicInfo == [tag |-> "", class |-> {"topic_info"}]
Strong == [tag |-> "strong", class |-> {}]
AnyA == [tag |-> "a", class |-> {}]
AnySpan == [tag |-> "span", class |-> {}]

Matches(el, sel) ==
    /\ sel.tag = "" \/ el.tag = sel.tag
    /\ sel.class \subseteq el.class

select(el, sel) ==
    LET d == Descendants(el)
        Test(e) == Matches(e, sel)
    IN SelectSeq(d, Test)

\* ------------------------------------------------------------------- text

Digits == {"0", "1", "2", "3", "4", "5", "6", "7", "8", "9"}

DigitVal(c) ==
    CASE c = "0" -> 0 [] c = "1" -> 1 [] c = "2" -> 2 [] c = "3" -> 3
      [] c = "4" -> 4 [] c = "5" -> 5 [] c = "6" -> 6 [] c = "7" -> 7
      [] c = "8" -> 8 [] c = "9" -> 9

I32Max == 2147483647
I32Min == -I32Max - 1

\* str::split(c): the pieces between the occurrences of c (always at least
\* one piece)
RECURSIVE SplitFrom(_, _, _)
SplitFrom(s, c, cur) ==
    IF s = <<>> THEN <<cur>>
    ELSE IF Head(s) = c THEN <<cur>> \o SplitFrom(Tail(s), c, <<>>)
    ELSE SplitFrom(Tail(s), c, Append(cur, Head(s)))

Split(s, c) == SplitFrom(s, c, <<>>)

\* Iterator::nth(n), n counted from 0
Nth(seq, n) == IF Len(seq) > n THEN Some(seq[n + 1]) ELSE None

\* the digit loop of i32::from_str: checked_mul(10) then checked_add or
\* checked_sub of the digit; None on a non-digit or on overflow
RECURSIVE ParseDigits(_, _, _)
ParseDigits(s, acc, neg) ==
    IF s = <<>> THEN Some(acc)
    ELSE IF Head(s) \notin Digits THEN None
    ELSE LET d == DigitVal(Head(s)) IN
         IF neg
         THEN IF acc < (I32Min + d + 9) \div 10 THEN None
              ELSE ParseDigits(Tail(s), acc * 10 - d, neg)
         ELSE IF acc > (I32Max - d) \div 10 THEN None
              ELSE ParseDigits(Tail(s), acc * 10 + d, neg)

\* str::parse::<i32>().ok(): an optional single sign, then at least one digit
parse_i32(s) ==
    IF s = <<>> THEN None
    ELSE IF Head(s) \in {"+", "-"}
         THEN IF Tail(s) = <<>> THEN None
              ELSE ParseDigits(Tail(s), 0, Head(s) = "-")
         ELSE ParseDigits(s, 0, FALSE)

\* and_then on an Option
AndThen(opt, F(_)) == IF opt = None THEN None ELSE F(opt[1])

UnwrapOr(opt, dflt) == IF opt = None THEN dflt ELSE opt[1]

\* topic_id without the split at '#'
topic_id_nofrag(href) ==
    LET ParseSeg(s) == parse_i32(s)
    IN AndThen(Nth(Split(href, "/"), 2), ParseSeg)

\* crawler.rs 76-78: the piece after the second '/', cut at the first '#',
\* parsed as an i32
topic_id(href) ==
    LET ParseInt(s) == parse_i32(s)
        ParseSeg(s) == AndThen(Nth(Split(s, "#"), 0), ParseInt)
    IN AndThen(Nth(Split(href, "/"), 2), ParseSeg)

\* chrono::DateTime::parse_from_str(_, "%Y-%m-%d %H:%M:%S %z") on the
\* attribute values that occur in the pages below: the DateTime<FixedOffset>
\* (offset in minutes) of a value in the format, an error for any other
WellFormedTimes ==
    {"2023-07-19 19:15:44 +08:00", "2023-07-19 19:15:44 +0800",
     "2023-07-20 08:05:09 +00:00"}

DateTimeOf(s) ==
    CASE s = "2023-07-19 19:15:44 +08:00" ->
           [y |-> 2023, mo |-> 7, d |-> 19, h |-> 19, mi |-> 15, s |-> 44, off |-> 480]
      [] s = "2023-07-19 19:15:44 +0800" ->
           [y |-> 2023, mo |-> 7, d |-> 19, h |-> 19, mi |-> 15, s |-> 44, off |-> 480]
      [] s = "2023-07-20 08:05:09 +00:00" ->
           [y |-> 2023, mo |-> 7, d |-> 20, h |-> 8, mi |-> 5, s |-> 9, off |-> 0]

parse_from_str(s) == IF s \in WellFormedTimes THEN Ok(DateTimeOf(s)) ELSE Err

\* DateTime::format("%Y/%m/%d %H:%M"): the fields of the local time
FormatYmdHM(t) == <<t.y, "/", t.mo, "/", t.d, " ", t.h, ":", t.mi>>

\* ---------------------------------------------------------------- crawler

V2exNode(name, sub_url) == [name |-> name, sub_url |-> sub_url]
V2exUser(name, sub_url) == [name |-> name, sub_url |-> sub_url]

V2exTopic(id, title, short_url, node, send_user, send_time, last_reply_user) ==
    [id |-> id, title |-> title, short_url |-> short_url, node |-> node,
     send_user |-> send_user, send_time |-> send_time,
     last_reply_user |-> last_reply_user]

Origin ==
    <<"h", "t", "t", "p", "s", ":", "/", "/", "w", "w", "w", ".",
      "v", "2", "e", "x", ".", "c", "o", "m">>

get_topic_url(t) == Origin \o t.short_url

list_item_format(t) == <<"title: ", t.title, " time: ", FormatYmdHM(t.send_time)>>

Last(seq) == seq[Len(seq)]

\* crawler.rs 100-134.  Every unwrap() of the function is a Panic when its
\* Option is None; the ? of line 124 returns the error of parse_from_str.
parse_v2ex_cell_item_topic_info(topic_info_span) ==
    LET all_strong_nodes == select(topic_info_span, Strong)
        all_a == select(topic_info_span, AnyA)
        all_span == select(topic_info_span, AnySpan)
    IN
    IF all_a = <<>> THEN Panic
    ELSE IF all_strong_nodes = <<>> THEN Panic
    ELSE IF all_span = <<>> THEN Panic
    ELSE
    LET node_a == Head(all_a)
        node_strong == Head(all_strong_nodes)
        node_span == Head(all_span)
        node_strong2 == Last(all_strong_nodes)
        inner_a == select(node_strong, AnyA)
        inner_a2 == select(node_strong2, AnyA)
    IN
    IF node_a.href = None THEN Panic
    ELSE IF inner_a = <<>> THEN Panic
    ELSE IF Head(inner_a).href = None THEN Panic
    ELSE IF node_span.title = None THEN Panic
    ELSE IF parse_from_str(node_span.title[1]).kind # "ok" THEN Err
    ELSE IF inner_a2 = <<>> THEN Panic
    ELSE IF Head(inner_a2).href = None THEN Panic
    ELSE Ok([v2ex_node |-> V2exNode(node_a.text, node_a.href[1]),
             send_user |-> V2exUser(Head(inner_a).text, Head(inner_a).href[1]),
             send_time |-> parse_from_str(node_span.title[1]).val,
             last_reply_user |->
                 V2exUser(Head(inner_a2).text, Head(inner_a2).href[1])])

\* crawler.rs 62-90: the loop over the .cell.item elements, with the Vec
\* built so far
RECURSIVE parse_cells(_, _)
parse_cells(nodes, vec) ==
    IF nodes = <<>> THEN Ok(vec)
    ELSE
    LET node == Head(nodes)
        links == select(node, TopicLink)
        infos == select(node, TopicInfo)
    IN
    IF links = <<>> THEN Panic
    ELSE IF Head(links).href = None THEN Panic
    ELSE IF infos = <<>> THEN Panic
    ELSE
    LET a == Head(links)
        href == a.href[1]
        info == parse_v2ex_cell_item_topic_info(Head(infos))
    IN
    IF info.kind # "ok" THEN info
    ELSE parse_cells(Tail(nodes),
             Append(vec, V2exTopic(UnwrapOr(topic_id(href), 0), a.text, href,
                                   info.val.v2ex_node, info.val.send_user,
                                   info.val.send_time, info.val.last_reply_user)))

\* crawler.rs 58-93, applied to the tree Html::parse_document builds
parse_v2ex_page(page) == parse_cells(select(page, CellItem), <<>>)

\* ------------------------------------------------------------------ pages

NoAttr == None

\* <a href=...>text</a>
A(class, href, text) == El("a", class, href, NoAttr, text, <<>>)

NodeHref == <<"/", "g", "o", "/", "q">>
User1Href == <<"/", "m", "/", "u", "1">>
User2Href == <<"/", "m", "/", "u", "2">>

NodeA == A({"node"}, Some(NodeHref), "qna")
Strong1 == El("strong", {}, NoAttr, NoAttr, "", <<A({}, Some(User1Href), "u1")>>)
Strong2 == El("strong", {}, NoAttr, NoAttr, "", <<A({}, Some(User2Href), "u2")>>)
TimeSpan(title) == El("span", {}, NoAttr, title, "1 hour ago", <<>>)
GoodSpan == TimeSpan(Some("2023-07-19 19:15:44 +08:00"))

\* <span class="topic_info">...</span>
Info(kids) == El("span", {"topic_info"}, NoAttr, NoAttr, "", kids)

GoodInfo == Info(<<NodeA, Strong1, GoodSpan, Strong2>>)

\* the topic-info fragments: well formed (two emphasis elements, one, no
\* category link, other accepted timestamps) and malformed
InfoPool ==
    {GoodInfo,
     Info(<<NodeA, Strong1, GoodSpan>>),
     Info(<<Strong1, GoodSpan, Strong2>>),
     Info(<<NodeA, Strong1, TimeSpan(Some("2023-07-19 19:15:44 +0800")), Strong2>>),
     Info(<<NodeA, Strong2, TimeSpan(Some("2023-07-20 08:05:09 +00:00")), Strong1>>),
     Info(<<NodeA, Strong1, TimeSpan(Some("not-a-date")), Strong2>>),
     Info(<<NodeA, Strong1, TimeSpan(NoAttr), Strong2>>),
     Info(<<NodeA, Strong1, Strong2>>),
     Info(<<NodeA, GoodSpan>>),
     Info(<<NodeA, El("strong", {}, NoAttr, NoAttr, "", <<>>), GoodSpan, Strong2>>),
     Info(<<NodeA, Strong1, GoodSpan, El("strong", {}, NoAttr, NoAttr, "", <<>>)>>),
     Info(<<A({"node"}, NoAttr, "qna"), Strong1, GoodSpan, Strong2>>),
     Info(<<>>)}

ThreadPrefix == <<"/", "t", "/">>
Reply0 == <<"#", "r", "e", "p", "l", "y", "0">>

SegmentPool ==
    {<<"9", "5", "8", "2", "5", "5">>,
     <<"1">>,
     <<"0", "0", "7">>,
     <<"-", "5">>,
     <<"+", "5">>,
     <<"2", "1", "4", "7", "4", "8", "3", "6", "4", "7">>,
     <<"2", "1", "4", "7", "4", "8", "3", "6", "4", "8">>,
     <<"-", "2", "1", "4", "7", "4", "8", "3", "6", "4", "8">>,
     <<"-", "2", "1", "4", "7", "4", "8", "3", "6", "4", "9">>,
     <<>>,
     <<"a", "b", "c">>,
     <<"1", "2", "a">>,
     <<"-">>}

\* the link targets of the title links
PathPool ==
    {ThreadPrefix \o seg : seg \in SegmentPool}
    \cup {ThreadPrefix \o seg \o Reply0 :
            seg \in {<<"9", "5", "8", "2", "5", "5">>, <<>>, <<"-", "5">>}}
    \cup {<<"/", "t", "/", "9", "5", "/", "x">>,
          <<"/", "g", "o", "/", "1", "2", "3">>,
          <<"t", "/", "9", "5">>,
          <<"/", "9", "5">>,
          <<>>}

\* <div class="cell item"> holding a title link and a topic-info fragment
Cell(links, infos) == El("div", {"cell", "item"}, NoAttr, NoAttr, "", links \o infos)

TitleLink(href, text) == A({"topic-link"}, href, text)

Path958255 == ThreadPrefix \o <<"9", "5", "8", "2", "5", "5">> \o Reply0
Path1 == ThreadPrefix \o <<"1">>

CellA == Cell(<<TitleLink(Some(Path958255), "A")>>, <<GoodInfo>>)
CellB == Cell(<<TitleLink(Some(Path1), "B")>>, <<Info(<<NodeA, Strong1, GoodSpan>>)>>)
CellBadTime ==
    Cell(<<TitleLink(Some(Path1), "C")>>,
         <<Info(<<NodeA, Strong1, TimeSpan(Some("not-a-date")), Strong2>>)>>)
CellNoLink == Cell(<<>>, <<GoodInfo>>)

\* an element that is no candidate: <div class="cell"> without "item"
OtherDiv == El("div", {"cell"}, NoAttr, NoAttr, "", <<A({}, Some(NodeHref), "more")>>)

\* the elements under the root of the pages the extractor is applied to
ElementPool ==
    {Cell(<<TitleLink(Some(p), "T")>>, <<GoodInfo>>) : p \in PathPool}
    \cup {Cell(<<TitleLink(Some(Path1), "T")>>, <<i>>) : i \in InfoPool}
    \cup {CellA, CellB, CellNoLink, OtherDiv,
          Cell(<<TitleLink(NoAttr, "T")>>, <<GoodInfo>>),
          Cell(<<TitleLink(Some(Path1), "T")>>, <<>>)}

\* the elements under the root of the pages the background task fetches
FetchedPool == {CellA, CellB, CellBadTime, CellNoLink}

Document(els) == El("html", {}, NoAttr, NoAttr, "", els)

SeqsUpTo(S, n) == UNION {[1..k -> S] : k \in 0..n}

ParsePages == {Document(els) : els \in SeqsUpTo(ElementPool, MaxCells)}
FetchedPages == {Document(els) : els \in SeqsUpTo(FetchedPool, MaxFetched)}

\* ------------------------------------------------------------------- main

\* AppState::new
AppState_new == [current_page |-> 1, data |-> None, loading_state |-> 1]

\* set_data that extends the list already held
set_data_merge(app, d) ==
    IF app.data = None THEN app
    ELSE [app EXCEPT !.data = Some(app.data[1] \o d)]

\* AppState::set_data: mem::replace of the field, the old value dropped
set_data(app, d) == [app EXCEPT !.data = Some(d)]

\* Receiver::try_recv: the oldest pending message, or an error (Empty or
\* Disconnected) when none is pending
try_recv(ch) == IF ch = <<>> THEN Err ELSE Ok(Head(ch))

\* data that adopts the default (empty) list when nothing was received
data_or_default(app, ch) ==
    IF try_recv(ch).kind = "ok" THEN set_data(app, try_recv(ch).val)
    ELSE set_data(app, <<>>)

\* main.rs 128-130: the Result of the map is discarded
data(app, ch) ==
    IF try_recv(ch).kind = "ok" THEN set_data(app, try_recv(ch).val) ELSE app

\* main.rs 172-174: the list items, numbered idx + 1 for idx from 0
list_items(topics) ==
    [i \in 1..Len(topics) |-> <<(i - 1) + 1, list_item_format(topics[i])>>]

\* main.rs 133-183: the frame rendered and the AppState left behind
ui(app) ==
    IF app.data = None
    THEN [frame |-> [kind |-> "loading", dots |-> app.loading_state, items |-> <<>>],
          app |-> [app EXCEPT !.loading_state = (app.loading_state + 1) % 5]]
    ELSE [frame |-> [kind |-> "list", dots |-> 0, items |-> list_items(app.data[1])],
          app |-> app]

\* the outcomes of get_v2ex_page (crawler.rs 47-56): a transport error, a
\* body that is not UTF-8, or the page
get_v2ex_page ==
    {[kind |-> "err", val |-> "transport"], [kind |-> "err", val |-> "decode"]}
    \cup {Ok(p) : p \in FetchedPages}

Init ==
    /\ bgpc = "fetch"
    /\ page_html = None
    /\ topic = <<>>
    /\ chan = <<>>
    /\ receiver = TRUE
    /\ app_state = AppState_new
    /\ fgpc = "data"
    /\ frame = None
    /\ browser = None
    /\ received = <<>>

\* the extractor on its own: the task has a page and is about to extract
InitParse ==
    /\ bgpc = "parse"
    /\ page_html \in {Some(p) : p \in ParsePages}
    /\ topic = <<>>
    /\ chan = <<>>
    /\ receiver = TRUE
    /\ app_state = AppState_new
    /\ fgpc = "data"
    /\ frame = None
    /\ browser = None
    /\ received = <<>>

fgvars == <<app_state, fgpc, frame, browser, received>>

\* main.rs 74-77
BgFetch ==
    /\ bgpc = "fetch"
    /\ \E r \in get_v2ex_page :
         IF r.kind = "ok"
         THEN bgpc' = "parse" /\ page_html' = Some(r.val)
         ELSE bgpc' = "fetch_err" /\ UNCHANGED page_html
    /\ UNCHANGED <<topic, chan, receiver>>
    /\ UNCHANGED fgvars

\* main.rs 79-82: a panic inside parse_v2ex_page ends the task
BgParse ==
    /\ bgpc = "parse"
    /\ LET r == parse_v2ex_page(page_html[1]) IN
         CASE r.kind = "ok" -> bgpc' = "send" /\ topic' = r.val
           [] r.kind = "err" -> bgpc' = "parse_err" /\ UNCHANGED topic
           [] r.kind = "panic" -> bgpc' = "panic" /\ UNCHANGED topic
    /\ UNCHANGED <<page_html, chan, receiver>>
    /\ UNCHANGED fgvars

\* a send that queues the list twice
BgSendTwice ==
    /\ bgpc = "send"
    /\ bgpc' = "done"
    /\ chan' = IF receiver THEN chan \o <<topic, topic>> ELSE chan
    /\ UNCHANGED <<page_html, topic, receiver>>
    /\ UNCHANGED fgvars

\* main.rs 84: send fails, and queues nothing, once the Receiver is dropped
BgSend ==
    /\ bgpc = "send"
    /\ bgpc' = "done"
    /\ chan' = IF receiver THEN Append(chan, topic) ELSE chan
    /\ UNCHANGED <<page_html, topic, receiver>>
    /\ UNCHANGED fgvars

bgvars == <<bgpc, page_html, topic>>

\* run_app returns or unwinds: the Receiver and what is pending are dropped
Leave(pc) ==
    /\ fgpc' = pc
    /\ receiver' = FALSE
    /\ chan' = <<>>

\* main.rs 88
FgData ==
    /\ fgpc = "data"
    /\ fgpc' = "draw"
    /\ app_state' = data(app_state, chan)
    /\ chan' = IF chan = <<>> THEN chan ELSE Tail(chan)
    /\ received' = IF chan = <<>> THEN received ELSE Append(received, Head(chan))
    /\ UNCHANGED <<receiver, frame, browser>>
    /\ UNCHANGED bgvars

\* main.rs 89
FgDraw ==
    /\ fgpc = "draw"
    /\ fgpc' = "poll"
    /\ frame' = Some(ui(app_state).frame)
    /\ app_state' = ui(app_state).app
    /\ UNCHANGED <<chan, receiver, browser, received>>
    /\ UNCHANGED bgvars

\* main.rs 89: terminal.draw returns an io::Error
FgDrawErr ==
    /\ fgpc = "draw"
    /\ Leave("io_err")
    /\ UNCHANGED <<app_state, frame, browser, received>>
    /\ UNCHANGED bgvars

\* main.rs 94-95: event::poll or event::read returns an io::Error
FgPollErr ==
    /\ fgpc = "poll"
    /\ Leave("io_err")
    /\ UNCHANGED <<app_state, frame, browser, received>>
    /\ UNCHANGED bgvars

\* main.rs 94-112: the poll times out, or the event is no key press, or the
\* key is neither Ctrl-C nor a digit
FgNoKey ==
    /\ fgpc = "poll"
    /\ fgpc' = "data"
    /\ UNCHANGED <<chan, receiver, app_state, frame, browser, received>>
    /\ UNCHANGED bgvars

\* main.rs 98-102
FgKeyCtrlC ==
    /\ fgpc = "poll"
    /\ Leave("quit")
    /\ UNCHANGED <<app_state, frame, browser, received>>
    /\ UNCHANGED bgvars

\* main.rs 104-109, the key being the digit d; opened is the outcome of
\* open::that
KeyDigit(d, opened) ==
    /\ fgpc = "poll"
    /\ LET index == d + 1 IN
         IF app_state.data = None \/ index >= Len(app_state.data[1]) \/ ~opened
         THEN Leave("panic") /\ UNCHANGED browser
         ELSE /\ fgpc' = "data"
              /\ browser' = Some(get_topic_url(app_state.data[1][index + 1]))
              /\ UNCHANGED <<chan, receiver>>
    /\ UNCHANGED <<app_state, frame, received>>
    /\ UNCHANGED bgvars

FgKeyDigit == \E d \in 0..9, opened \in BOOLEAN : KeyDigit(d, opened)

Next ==
    \/ BgFetch
    \/ BgParse
    \/ BgSend
    \/ FgData
    \/ FgDraw
    \/ FgDrawErr
    \/ FgPollErr
    \/ FgNoKey
    \/ FgKeyCtrlC
    \/ FgKeyDigit

Spec == Init /\ [][Next]_vars

\* the task, once it holds the extracted list, is scheduled until it has
\* sent it, and the loop keeps iterating while run_app has not returned
FairSpec ==
    /\ Spec
    /\ WF_vars(BgSend)
    /\ WF_vars(FgData)
    /\ WF_vars(FgDraw \/ FgDrawErr)
    /\ WF_vars(FgPollErr \/ FgNoKey \/ FgKeyCtrlC \/ FgKeyDigit)

NextParse == BgParse

SpecParse == InitParse /\ [][NextParse]_vars

\* ----------------------------------------------------------- the extractor

\* the candidates of the page the task holds, in document order
Candidates == select(page_html[1], CellItem)

Extracted == bgpc # "fetch" /\ bgpc # "parse" /\ page_html # None

HasTitleLink(c) == select(c, TopicLink) # <<>>

HasPermalink(c) == HasTitleLink(c) /\ Head(select(c, TopicLink)).href # None

HasInfo(c) == select(c, TopicInfo) # <<>>

InfoWellFormed(c) ==
    /\ HasInfo(c)
    /\ parse_v2ex_cell_item_topic_info(Head(select(c, TopicInfo))).kind = "ok"

\* the Topic of one candidate that has a permalink and well-formed fields:
\* what the extractor returns for the page holding that candidate alone
TopicOf(c) == parse_v2ex_page(Document(<<c>>)).val[1]

TopicsOf(cs) == [i \in 1..Len(cs) |-> TopicOf(cs[i])]

\* C1: when the field extraction of some candidate fails, only that
\* candidate is omitted: the call still succeeds with the Topic of every
\* other candidate.
C1_OnlyFailingCandidateDropped ==
    (/\ Extracted
     /\ \A i \in 1..Len(Candidates) :
          HasPermalink(Candidates[i]) /\ HasInfo(Candidates[i])
     /\ \E i \in 1..Len(Candidates) : ~InfoWellFormed(Candidates[i]))
    => /\ bgpc \in {"send", "done"}
       /\ topic = TopicsOf(SelectSeq(Candidates, InfoWellFormed))

\* C2: on a page whose candidates all have well-formed topic-info
\* fragments the call returns one Topic per candidate that has a title
\* link, in document order, the candidates without one being skipped.
C2_OneTopicPerTitleLink ==
    (/\ Extracted
     /\ \A i \in 1..Len(Candidates) : InfoWellFormed(Candidates[i]))
    => /\ bgpc \in {"send", "done"}
       /\ topic = TopicsOf(SelectSeq(Candidates, HasTitleLink))

\* C6: every Topic the extractor builds has id >= 0.
C6_IdNonNegative ==
    bgpc \in {"send", "done"} => \A i \in 1..Len(topic) : topic[i].id >= 0

\* --- decimal numerals, stated apart from the parser

IsPrefix(p, s) == Len(p) <= Len(s) /\ SubSeq(s, 1, Len(p)) = p

Min(S) == CHOOSE x \in S : \A y \in S : x <= y

\* s up to, and without, its first character that is in stops
UpTo(s, stops) ==
    SubSeq(s, 1, Min({k \in 1..Len(s) : s[k] \in stops} \cup {Len(s) + 1}) - 1)

Unsigned(seg) == IF seg # <<>> /\ Head(seg) \in {"+", "-"} THEN Tail(seg) ELSE seg

\* an optional sign followed by one or more digits
IsNumeral(seg) ==
    /\ Unsigned(seg) # <<>>
    /\ \A k \in 1..Len(Unsigned(seg)) : Unsigned(seg)[k] \in Digits

\* the digits of a numeral without its leading zeros ("0" for zero)
Significant(ds) ==
    LET nz == {k \in 1..Len(ds) : ds[k] # "0"}
    IN IF nz = {} THEN <<"0">> ELSE SubSeq(ds, Min(nz), Len(ds))

DigitChar(v) == CHOOSE c \in Digits : DigitVal(c) = v

\* the decimal digits of n >= 0, and of the magnitude of n <= 0
RECURSIVE Render(_)
Render(n) ==
    IF n < 10 THEN <<DigitChar(n)>>
    ELSE Append(Render(n \div 10), DigitChar(n % 10))

RECURSIVE RenderNeg(_)
RenderNeg(n) ==
    IF n > -10 THEN <<DigitChar(-n)>>
    ELSE LET q == (n + 9) \div 10
         IN Append(RenderNeg(q), DigitChar(10 * q - n))

\* id is the number the numeral seg denotes
Denotes(seg, id) ==
    IF Head(seg) = "-"
    THEN id <= 0 /\ RenderNeg(id) = Significant(Unsigned(seg))
    ELSE id >= 0 /\ Render(id) = Significant(Unsigned(seg))

\* digit strings of equal length, compared as numbers
LeqDigits(a, b) ==
    \/ a = b
    \/ \E k \in 1..Len(a) :
         /\ DigitVal(a[k]) < DigitVal(b[k])
         /\ \A j \in 1..(k - 1) : a[j] = b[j]

\* the numeral denotes a number an i32 holds
InI32(seg) ==
    LET ds == Significant(Unsigned(seg))
        lim == IF Head(seg) = "-" THEN RenderNeg(I32Min) ELSE Render(I32Max)
    IN Len(ds) < Len(lim) \/ (Len(ds) = Len(lim) /\ LeqDigits(ds, lim))

\* the segment that follows the thread path prefix /t/, without a fragment
SegmentAfterThreadPrefix(h) == UpTo(SubSeq(h, Len(ThreadPrefix) + 1, Len(h)), {"/", "#"})

Slashes(h) == {k \in 1..Len(h) : h[k] = "/"}

\* the text after the second '/' of h, up to the next '/' or '#'
ThirdPiece(h) ==
    LET s2 == CHOOSE k \in Slashes(h) : Cardinality({j \in Slashes(h) : j < k}) = 1
    IN UpTo(SubSeq(h, s2 + 1, Len(h)), {"/", "#"})

AllProduced ==
    (\A i \in 1..Len(Candidates) :
        HasPermalink(Candidates[i]) /\ InfoWellFormed(Candidates[i]))
    => bgpc \in {"send", "done"} /\ Len(topic) = Len(Candidates)

\* C7 as stated: the id is the number in the segment that follows the
\* thread path prefix, fragment removed; 0 when the segment is missing or
\* is not a number; the topic is produced in either case.
C7_IdIsSegmentNumber ==
    Extracted =>
      /\ AllProduced
      /\ bgpc \in {"send", "done"} =>
           \A i \in 1..Len(topic) :
             LET h == topic[i].short_url IN
               IF IsPrefix(ThreadPrefix, h) /\ IsNumeral(SegmentAfterThreadPrefix(h))
               THEN Denotes(SegmentAfterThreadPrefix(h), topic[i].id)
               ELSE topic[i].id = 0

\* C7 amended: the id is the number in the piece after the second '/' of
\* the path (the segment after /t/ in a thread path), fragment removed; 0
\* when that piece is missing, is not an optionally signed decimal number,
\* or is a number no i32 holds; the topic is produced in every case.
C7_IdIsI32OfThirdPiece ==
    Extracted =>
      /\ AllProduced
      /\ bgpc \in {"send", "done"} =>
           \A i \in 1..Len(topic) :
             LET h == topic[i].short_url IN
               IF /\ Cardinality(Slashes(h)) >= 2
                  /\ IsNumeral(ThirdPiece(h))
                  /\ InI32(ThirdPiece(h))
               THEN Denotes(ThirdPiece(h), topic[i].id)
               ELSE topic[i].id = 0

\* a page with /t/958255#reply0 and /t/2147483648 has been extracted
C7_Witness ==
    /\ bgpc = "send"
    /\ \E i \in 1..Len(topic) :
         topic[i].short_url = Path958255 /\ topic[i].id = 958255
    /\ \E i \in 1..Len(topic) :
         /\ topic[i].short_url =
              ThreadPrefix \o <<"2", "1", "4", "7", "4", "8", "3", "6", "4", "8">>
         /\ topic[i].id = 0

\* ------------------------------------------------------ the refresh protocol

Stopped == {"quit", "io_err", "panic"}

\* C3: at most one list is ever pending, the consumer never receives
\* twice, and the list of a successful cycle is either pending or has been
\* received (and adopted) exactly once while run_app holds the Receiver.
C3_DeliveredOnce ==
    /\ Len(chan) <= 1
    /\ Len(received) <= 1
    /\ bgpc # "done" => chan = <<>> /\ received = <<>>
    /\ (bgpc = "done" /\ receiver) => chan \o received = <<topic>>
    /\ received # <<>> => received = <<topic>> /\ app_state.data = Some(topic)

\* the list of a successful cycle has been received and none is pending
C3_Witness ==
    /\ bgpc = "done"
    /\ received = <<topic>>
    /\ Len(topic) = 2
    /\ chan = <<>>
    /\ fgpc = "poll"

\* C4: a cycle that fails at the fetch, at decoding or in the extraction
\* sends nothing, and AppState.data keeps the value it had before the cycle.
C4_FailedCycleLeavesData ==
    bgpc \in {"fetch_err", "parse_err", "panic"} =>
      /\ chan = <<>>
      /\ received = <<>>
      /\ app_state.data = AppState_new.data

\* the extraction failed and the foreground loop has polled since
C4_Witness ==
    /\ bgpc = "parse_err"
    /\ fgpc = "draw"
    /\ app_state.loading_state = 3
    /\ app_state.data = None

\* C5: the foreground loop never panics.
C5_NoCrash == fgpc # "panic"

\* C8: once fetch and extraction have succeeded, the foreground loop, as
\* long as it runs, eventually holds exactly the extracted list in
\* AppState.data, and a list once adopted is never given up.
C8_EventuallyAdopted ==
    /\ (bgpc = "send") ~>
         (\/ /\ page_html # None
             /\ app_state.data = Some(parse_v2ex_page(page_html[1]).val)
          \/ fgpc \in Stopped)
    /\ [][app_state.data # None => app_state'.data = app_state.data]_vars

\* a list of two topics has been adopted and rendered
C8_Witness ==
    /\ bgpc = "done"
    /\ Len(topic) = 2
    /\ app_state.data = Some(topic)
    /\ frame # None
    /\ frame[1].kind = "list"

\* C9: while no list has been adopted the dot count stays within 1..5.
C9_DotsInRange == app_state.data = None => app_state.loading_state \in 1..5

\* C10: a digit d pressed while the list is displayed opens the URL of the
\* topic the list shows under number d, and leaves AppState.data unchanged.
C10_DigitOpensShownTopic ==
    [][\A d \in 0..9 :
         (/\ KeyDigit(d, TRUE)
          /\ frame # None
          /\ frame[1].kind = "list")
         => \A i \in 1..Len(frame[1].items) :
              frame[1].items[i][1] = d =>
                /\ browser' = Some(Origin \o app_state.data[1][i].short_url)
                /\ app_state'.data = app_state.data]_vars

====
